---- MODULE Spec2Model ----
(***************************************************************************)
(* Model of docker-monitor: the CPU percentage calculation and the stat    *)
(* decoder (pkg/stats), container resolution (pkg/container), the parallel *)
(* stats collector (FetchContainerStatsParallel) and the render loop of    *)
(* main, with the row printers of pkg/utils.                               *)
(*                                                                         *)
(* Strings are sequences of one-character strings.  Go slices are          *)
(* sequences, so the Go index i is the position i+1 here.  A float64 is    *)
(* a record [k, n, d]: k = "num" is the exact rational n/d (d > 0, lowest  *)
(* terms; rounding to the nearest double is not modelled), and k = "NaN",  *)
(* "+Inf", "-Inf" are the IEEE-754 special values.                         *)
(***************************************************************************)
EXTENDS Integers, Sequences, FiniteSets, TLC

\* ---------------------------------------------------------------- bounds
MaxCounter == 3      \* cumulative counters range over 0..MaxCounter (and the spec's examples)
MaxContainers == 2   \* longest container list the runtime returns
MaxCycles == 2       \* poll cycles explored
IdLen == 12          \* length of a container identifier

\* ------------------------------------------------------ program constants
FallbackCores == 7
maxIdLength == 12

\* ------------------------------------------------------------ float64
RECURSIVE GCD(_, _)
GCD(a, b) == IF b = 0 THEN a ELSE GCD(b, a % b)

Abs(x) == IF x < 0 THEN -x ELSE x

NaN == [k |-> "NaN", n |-> 0, d |-> 1]
PosInf == [k |-> "+Inf", n |-> 0, d |-> 1]
NegInf == [k |-> "-Inf", n |-> 0, d |-> 1]

\* the rational a/b (b # 0) in lowest terms with a positive denominator
Rat(a, b) ==
    LET g == GCD(Abs(a), Abs(b))
        s == IF b < 0 THEN -1 ELSE 1
    IN  [k |-> "num", n |-> (s * a) \div g, d |-> (s * b) \div g]

\* float64(x) of an unsigned integer
Float(x) == [k |-> "num", n |-> x, d |-> 1]

Sign(x) == CASE x.k = "+Inf" -> 1
             [] x.k = "-Inf" -> -1
             [] OTHER -> IF x.n > 0 THEN 1 ELSE IF x.n < 0 THEN -1 ELSE 0

IsInf(x) == x.k \in {"+Inf", "-Inf"}

\* x - y on finite operands
FSub(x, y) == Rat(x.n * y.d - y.n * x.d, x.d * y.d)

\* x / y, IEEE-754: a finite x over zero is an infinity, 0/0 is NaN
FDiv(x, y) ==
    IF x.k = "NaN" \/ y.k = "NaN" THEN NaN
    ELSE IF IsInf(x) /\ IsInf(y) THEN NaN
    ELSE IF IsInf(x) THEN (IF Sign(x) * (IF Sign(y) < 0 THEN -1 ELSE 1) > 0 THEN PosInf ELSE NegInf)
    ELSE IF IsInf(y) THEN Float(0)
    ELSE IF y.n = 0 THEN (IF x.n = 0 THEN NaN ELSE IF x.n > 0 THEN PosInf ELSE NegInf)
    ELSE Rat(x.n * y.d, x.d * y.n)

\* x * y, IEEE-754: infinity times zero is NaN
FMul(x, y) ==
    IF x.k = "NaN" \/ y.k = "NaN" THEN NaN
    ELSE IF IsInf(x) \/ IsInf(y)
         THEN (IF Sign(x) * Sign(y) = 0 THEN NaN
               ELSE IF Sign(x) * Sign(y) > 0 THEN PosInf ELSE NegInf)
    ELSE Rat(x.n * y.n, x.d * y.d)

\* --------------------------------------------------- raw stats snapshot
CounterVals == (0 .. MaxCounter) \cup {10, 20, 100, 200}
CoreCounts == {0, 1, 4}

\* container.StatsResponse, the fields GetContainerStats reads
RawStats(tu, ptu, su, psu, cores, mu, ml, eth) ==
    [TotalUsage |-> tu, PreTotalUsage |-> ptu, SystemUsage |-> su,
     PreSystemUsage |-> psu, PercpuLen |-> cores,
     MemUsage |-> mu, MemLimit |-> ml, Eth0 |-> eth]

NoEth0 == [present |-> FALSE, RxBytes |-> 0, TxBytes |-> 0]

perCpuUsageLen_NoFallback(stats) == stats.PercpuLen

perCpuUsageLen(stats) ==
    IF stats.PercpuLen = 0 THEN FallbackCores ELSE stats.PercpuLen

calculateCPUPercentage(stats) ==
    LET cpuDelta == FSub(Float(stats.TotalUsage), Float(stats.PreTotalUsage))
        systemDelta == FSub(Float(stats.SystemUsage), Float(stats.PreSystemUsage))
    IN  FMul(FMul(FDiv(cpuDelta, systemDelta), Float(perCpuUsageLen(stats))), Float(100))

ZeroSample ==
    [CPUPercentage |-> Float(0), MemoryUsage |-> Float(0), MemoryLimit |-> Float(0),
     NetworkRx |-> Float(0), NetworkTx |-> Float(0)]

\* a missing "eth0" key reads as the zero NetworkStats
Eth0Of(stats) == IF stats.Eth0.present THEN stats.Eth0 ELSE NoEth0

MiB(bytes) == FDiv(FDiv(Float(bytes), Float(1024)), Float(1024))

\* resp is "ok", "fetchErr" (cli.ContainerStats fails) or "decodeErr"
GetContainerStats(resp, statsJSON) ==
    IF resp # "ok" THEN [stats |-> ZeroSample, err |-> TRUE]
    ELSE [stats |-> [CPUPercentage |-> calculateCPUPercentage(statsJSON),
                     MemoryUsage |-> MiB(statsJSON.MemUsage),
                     MemoryLimit |-> MiB(statsJSON.MemLimit),
                     NetworkRx |-> MiB(Eth0Of(statsJSON).RxBytes),
                     NetworkTx |-> MiB(Eth0Of(statsJSON).TxBytes)],
          err |-> FALSE]

\* ------------------------------------------------------------ containers
Pad(n) == [i \in 1 .. n |-> "0"]

\* an identifier: two leading characters and zero padding up to IdLen
MkID(a, b) == <<a, b>> \o Pad(IdLen - 2)

MkContainer(id, names) == [ID |-> id, Names |-> names]

\* types.Container{}
ZeroContainer == [ID |-> <<>>, Names |-> <<>>]

C_web == MkContainer(MkID("a", "a"), << <<"/", "w", "e">> >>)
C_db == MkContainer(MkID("a", "b"), << <<"/", "d", "b">> >>)
C_ab == MkContainer(MkID("b", "a"), << <<"/", "a", "b">>, <<"/", "x", "y">> >>)

Universe == {C_web, C_db, C_ab}

\* the lists the runtime can return: distinct containers, any order
Lists ==
    {l \in UNION {[1 .. n -> Universe] : n \in 0 .. MaxContainers} :
        \A i, j \in DOMAIN l : i # j => l[i] # l[j]}

HasPrefix_ExactOnly(s, prefix) == s = prefix

\* strings.HasPrefix
HasPrefix(s, prefix) ==
    /\ Len(prefix) <= Len(s)
    /\ \A i \in 1 .. Len(prefix) : s[i] = prefix[i]

RECURSIVE NameMatches(_, _, _)
\* the inner loop over c.Names, from position k
NameMatches(names, k, containerSpecifier) ==
    IF k > Len(names) THEN FALSE
    ELSE IF names[k] = containerSpecifier \/ names[k] = <<"/">> \o containerSpecifier
         THEN TRUE
    ELSE NameMatches(names, k + 1, containerSpecifier)

RECURSIVE FindFrom(_, _, _)
\* the loop over containers, from position k
FindFrom(containers, k, containerSpecifier) ==
    IF k > Len(containers)
    THEN [c |-> ZeroContainer, err |-> "container not found"]
    ELSE IF HasPrefix(containers[k].ID, containerSpecifier)
         THEN [c |-> containers[k], err |-> "nil"]
    ELSE IF NameMatches(containers[k].Names, 1, containerSpecifier)
         THEN [c |-> containers[k], err |-> "nil"]
    ELSE FindFrom(containers, k + 1, containerSpecifier)

\* listing is [err, list]: the outcome of cli.ContainerList
FindContainer(listing, containerSpecifier) ==
    IF listing.err THEN [c |-> ZeroContainer, err |-> "list error"]
    ELSE FindFrom(listing.list, 1, containerSpecifier)

Listings == {[err |-> TRUE, list |-> <<>>]} \cup {[err |-> FALSE, list |-> l] : l \in Lists}

\* what the runtime reports for each container (one fixed snapshot each)
RuntimeStats(id) ==
    CASE id = C_web.ID ->
           RawStats(20, 10, 200, 100, 4, 1048576, 2097152,
                    [present |-> TRUE, RxBytes |-> 1048576, TxBytes |-> 0])
      [] id = C_db.ID ->
           RawStats(3, 1, 10, 10, 0, 524288, 1048576,
                    [present |-> TRUE, RxBytes |-> 0, TxBytes |-> 2097152])
      [] OTHER ->
           RawStats(2, 1, 3, 1, 0, 3145728, 0, NoEth0)

\* the ways a call of GetContainerStats can go
Responses == {"ok", "fetchErr", "decodeErr"}

\* GetContainerStats(ctx, cli, id) for every container and response
FetchResult ==
    [id \in {c.ID : c \in Universe} |->
        [resp \in Responses |-> GetContainerStats(resp, RuntimeStats(id))]]

\* ---------------------------------------------------------------- state
VARIABLES
    mode,        \* flag.Args(): [single, spec]
    vertical,    \* flags[0]
    pc,          \* position of main in the render loop
    cycle,       \* number of loop iterations started
    containers,  \* main's containers of this iteration
    tasks,       \* the fetch goroutines in flight: [cyc, i, c, st, stats]
    li,          \* the launch loop's next index
    wg,          \* sync.WaitGroup counter
    statsChan,   \* buffered channel contents
    closed,      \* statsChan is closed
    closer,      \* the goroutine of wg.Wait and close
    results,     \* the result slice
    outcome,     \* per index of this call: "none", "ok", "failed"
    order,       \* indices in the order main received them
    out,         \* terminal output of this iteration
    steps,       \* loop steps taken in this iteration
    prevSteps,   \* loop steps taken in the previous iteration
    cpuIn, cpuOut,   \* argument and result of calculateCPUPercentage
    findIn, findOut  \* arguments and result of FindContainer

mainVars == <<mode, vertical, pc, cycle, containers, tasks, li, wg, statsChan,
              closed, closer, results, outcome, order, out, steps, prevSteps>>
vars == <<mode, vertical, pc, cycle, containers, tasks, li, wg, statsChan,
          closed, closer, results, outcome, order, out, steps, prevSteps,
          cpuIn, cpuOut, findIn, findOut>>

\* ContainerStat{}
ZeroStat == [Container |-> ZeroContainer, Stats |-> ZeroSample]

NoFloat == [k |-> "none", n |-> 0, d |-> 1]
NoFind == [c |-> ZeroContainer, err |-> "none"]

\* specifiers tried in single-container mode
MainSpecifiers == {C_web.ID, <<"d", "b">>, <<"a">>, <<"z">>}

Modes == {[single |-> FALSE, spec |-> <<>>]}
           \cup {[single |-> TRUE, spec |-> sp] : sp \in MainSpecifiers}

InitLoop ==
    /\ pc = "resolve"
    /\ cycle = 0
    /\ containers = <<>>
    /\ tasks = {}
    /\ li = 1
    /\ wg = 0
    /\ statsChan = <<>>
    /\ closed = FALSE
    /\ closer = "none"
    /\ results = <<>>
    /\ outcome = <<>>
    /\ order = <<>>
    /\ out = <<>>
    /\ steps = <<>>
    /\ prevSteps = <<>>

InitPure ==
    /\ cpuIn = RawStats(0, 0, 0, 0, 0, 0, 0, NoEth0)
    /\ cpuOut = NoFloat
    /\ findIn = [listing |-> [err |-> TRUE, list |-> <<>>], spec |-> <<>>]
    /\ findOut = NoFind

Init ==
    /\ mode \in Modes
    /\ vertical \in BOOLEAN
    /\ InitLoop
    /\ InitPure

Alive == pc # "panicked"

\* ------------------------------------------------- render loop: resolve
ListIsEmpty_Never(listOfContainers) == FALSE

ListIsEmpty(listOfContainers) == Len(listOfContainers) = 0

BeginCycle ==
    /\ cycle' = cycle + 1
    /\ prevSteps' = steps
    /\ steps' = <<"Resolve">>
    /\ out' = <<>>

ResolveSingle ==
    /\ pc = "resolve" /\ mode.single /\ cycle < MaxCycles
    /\ \E listing \in Listings :
         LET r == FindContainer(listing, mode.spec)
         IN  IF r.err # "nil"
             THEN /\ pc' = "resolve"
                  /\ containers' = <<>>
             ELSE /\ pc' = "call"
                  /\ containers' = <<r.c>>
    /\ BeginCycle
    /\ UNCHANGED <<mode, vertical, tasks, li, wg, statsChan, closed, closer,
                   results, outcome, order, cpuIn, cpuOut, findIn, findOut>>

ResolveAll ==
    /\ pc = "resolve" /\ ~mode.single /\ cycle < MaxCycles
    /\ \E listing \in Listings :
         IF listing.err
         THEN /\ pc' = "resolve"
              /\ containers' = <<>>
         ELSE IF ListIsEmpty(listing.list)
         THEN /\ pc' = "sleepEmpty"
              /\ containers' = <<>>
         ELSE /\ pc' = "call"
              /\ containers' = listing.list
    /\ BeginCycle
    /\ UNCHANGED <<mode, vertical, tasks, li, wg, statsChan, closed, closer,
                   results, outcome, order, cpuIn, cpuOut, findIn, findOut>>

\* --------------------------------------- FetchContainerStatsParallel
EnterFetch ==
    /\ pc = "call"
    /\ pc' = "launch"
    /\ wg' = 0
    /\ statsChan' = <<>>
    /\ closed' = FALSE
    /\ li' = 1
    /\ results' = <<>>
    /\ outcome' = [i \in 1 .. Len(containers) |-> "none"]
    /\ order' = <<>>
    /\ steps' = Append(steps, "Collect")
    /\ UNCHANGED <<mode, vertical, cycle, containers, tasks, closer, out,
                   prevSteps, cpuIn, cpuOut, findIn, findOut>>

LaunchTask ==
    /\ pc = "launch" /\ li <= Len(containers)
    /\ wg' = wg + 1
    /\ tasks' = tasks \cup {[cyc |-> cycle, i |-> li, c |-> containers[li],
                             st |-> "fetching", stats |-> ZeroSample]}
    /\ li' = li + 1
    /\ UNCHANGED <<mode, vertical, pc, cycle, containers, statsChan, closed,
                   closer, results, outcome, order, out, steps, prevSteps,
                   cpuIn, cpuOut, findIn, findOut>>

SpawnCloser ==
    /\ pc = "launch" /\ li > Len(containers)
    /\ closer' = "waiting"
    /\ pc' = "make"
    /\ UNCHANGED <<mode, vertical, cycle, containers, tasks, li, wg, statsChan,
                   closed, results, outcome, order, out, steps, prevSteps,
                   cpuIn, cpuOut, findIn, findOut>>

MakeResults ==
    /\ pc = "make"
    /\ results' = [i \in 1 .. Len(containers) |-> ZeroStat]
    /\ pc' = "range"
    /\ UNCHANGED <<mode, vertical, cycle, containers, tasks, li, wg, statsChan,
                   closed, closer, outcome, order, out, steps, prevSteps,
                   cpuIn, cpuOut, findIn, findOut>>

FirstZero(res) ==
    IF \E k \in DOMAIN res : res[k] = ZeroStat
    THEN CHOOSE k \in DOMAIN res : res[k] = ZeroStat /\ \A j \in 1 .. k - 1 : res[j] # ZeroStat
    ELSE 1

StoreResult_CompletionOrder(res, result) ==
    [res EXCEPT ![FirstZero(res)] = result.Stat]

\* results[result.Index] = result.Stat
StoreResult(res, result) == [res EXCEPT ![result.Index] = result.Stat]

Recv ==
    /\ pc = "range" /\ statsChan # <<>>
    /\ results' = StoreResult(results, Head(statsChan))
    /\ statsChan' = Tail(statsChan)
    /\ order' = Append(order, Head(statsChan).Index)
    /\ UNCHANGED <<mode, vertical, pc, cycle, containers, tasks, li, wg, closed,
                   closer, outcome, out, steps, prevSteps,
                   cpuIn, cpuOut, findIn, findOut>>

RangeEnds_WhenEmpty(ch, cl) == ch = <<>>

\* the range loop ends when the channel is drained and closed
RangeEnds(ch, cl) == ch = <<>> /\ cl

RangeEnd ==
    /\ pc = "range" /\ RangeEnds(statsChan, closed)
    /\ pc' = "render"
    /\ UNCHANGED <<mode, vertical, cycle, containers, tasks, li, wg, statsChan,
                   closed, closer, results, outcome, order, out, steps,
                   prevSteps, cpuIn, cpuOut, findIn, findOut>>

FetchStep_IgnoreErr(t, r) == [t EXCEPT !.st = "sending", !.stats = r.stats]

\* the goroutine after GetContainerStats returned r
FetchStep(t, r) ==
    IF r.err THEN [t EXCEPT !.st = "deferred"]
    ELSE [t EXCEPT !.st = "sending", !.stats = r.stats]

TaskFetch(t) ==
    /\ Alive /\ t.st = "fetching"
    /\ \E resp \in Responses :
         LET r == FetchResult[t.c.ID][resp]
         IN  /\ tasks' = (tasks \ {t}) \cup {FetchStep(t, r)}
             /\ outcome' = IF t.cyc = cycle /\ t.i \in DOMAIN outcome
                           THEN [outcome EXCEPT ![t.i] = IF r.err THEN "failed" ELSE "ok"]
                           ELSE outcome
    /\ UNCHANGED <<mode, vertical, pc, cycle, containers, li, wg, statsChan,
                   closed, closer, results, order, out, steps, prevSteps,
                   cpuIn, cpuOut, findIn, findOut>>

StatMsg_FirstSlot(t) == [Index |-> 1, Stat |-> [Container |-> t.c, Stats |-> t.stats]]

\* the value sent on statsChan
StatMsg(t) == [Index |-> t.i, Stat |-> [Container |-> t.c, Stats |-> t.stats]]

ChanCap_OneShort(cs) == Len(cs) - 1

\* capacity of statsChan: make(chan ..., len(containers))
ChanCap(cs) == Len(cs)

TaskSend(t) ==
    /\ Alive /\ t.st = "sending"
    /\ Len(statsChan) < ChanCap(containers)
    /\ IF closed
       THEN /\ pc' = "panicked"
            /\ UNCHANGED <<statsChan, tasks>>
       ELSE /\ statsChan' = Append(statsChan, StatMsg(t))
            /\ tasks' = (tasks \ {t}) \cup {[t EXCEPT !.st = "deferred"]}
            /\ pc' = pc
    /\ UNCHANGED <<mode, vertical, cycle, containers, li, wg, closed, closer,
                   results, outcome, order, out, steps, prevSteps,
                   cpuIn, cpuOut, findIn, findOut>>

\* defer wg.Done()
TaskDone(t) ==
    /\ Alive /\ t.st = "deferred"
    /\ wg' = wg - 1
    /\ tasks' = tasks \ {t}
    /\ UNCHANGED <<mode, vertical, pc, cycle, containers, li, statsChan, closed,
                   closer, results, outcome, order, out, steps, prevSteps,
                   cpuIn, cpuOut, findIn, findOut>>

WgWaitReturns_Always(counter) == TRUE

\* wg.Wait() returns when the counter is zero
WgWaitReturns(counter) == counter = 0

CloserWait ==
    /\ Alive /\ closer = "waiting" /\ WgWaitReturns(wg)
    /\ closer' = "closing"
    /\ UNCHANGED <<mode, vertical, pc, cycle, containers, tasks, li, wg,
                   statsChan, closed, results, outcome, order, out, steps,
                   prevSteps, cpuIn, cpuOut, findIn, findOut>>

CloserClose ==
    /\ Alive /\ closer = "closing"
    /\ closed' = TRUE
    /\ closer' = "none"
    /\ UNCHANGED <<mode, vertical, pc, cycle, containers, tasks, li, wg,
                   statsChan, results, outcome, order, out, steps, prevSteps,
                   cpuIn, cpuOut, findIn, findOut>>

\* ---------------------------------------------------- render loop: render
\* ClearScreen and PrintHeader, as the escape sequences and lines emitted
Preamble(verticalFlag) ==
    IF verticalFlag THEN << [kind |-> "clearAll"] >>
    ELSE << [kind |-> "clearFromRow2"], [kind |-> "header"] >>

\* c.ID[:maxIdLength] and c.Names[0] are out of range
HorizontalPanics(c) == Len(c.ID) < maxIdLength \/ Len(c.Names) = 0

\* c.Names[0] is out of range
VerticalPanics(c) == Len(c.Names) = 0

PrintStatsHorizontally(c, stats) ==
    [kind |-> "row", id |-> SubSeq(c.ID, 1, maxIdLength), name |-> c.Names[1],
     stats |-> stats]

PrintStatsVertically(c, stats) ==
    [kind |-> "row", id |-> <<>>, name |-> c.Names[1], stats |-> stats]

RowPanics(verticalFlag, stat) ==
    IF verticalFlag THEN VerticalPanics(stat.Container)
    ELSE HorizontalPanics(stat.Container)

PrintRow(verticalFlag, stat) ==
    IF verticalFlag THEN PrintStatsVertically(stat.Container, stat.Stats)
    ELSE PrintStatsHorizontally(stat.Container, stat.Stats)

RECURSIVE PrintRows(_, _, _, _)
\* the loop over s from position k, acc the rows printed so far
PrintRows(s, k, verticalFlag, acc) ==
    IF k > Len(s) THEN [rows |-> acc, panic |-> FALSE]
    ELSE IF RowPanics(verticalFlag, s[k]) THEN [rows |-> acc, panic |-> TRUE]
    ELSE PrintRows(s, k + 1, verticalFlag, Append(acc, PrintRow(verticalFlag, s[k])))

Render ==
    /\ pc = "render"
    /\ LET p == PrintRows(results, 1, vertical, <<>>)
       IN  /\ out' = Preamble(vertical) \o p.rows
           /\ pc' = IF p.panic THEN "panicked" ELSE "sleep"
    /\ steps' = Append(steps, "Render")
    /\ UNCHANGED <<mode, vertical, cycle, containers, tasks, li, wg, statsChan,
                   closed, closer, results, outcome, order, prevSteps,
                   cpuIn, cpuOut, findIn, findOut>>

\* time.Sleep(1 * time.Second), at the end of a cycle or after an empty list
Sleep ==
    /\ pc \in {"sleep", "sleepEmpty"}
    /\ pc' = "resolve"
    /\ steps' = Append(steps, "Sleep")
    /\ UNCHANGED <<mode, vertical, cycle, containers, tasks, li, wg, statsChan,
                   closed, closer, results, outcome, order, out, prevSteps,
                   cpuIn, cpuOut, findIn, findOut>>

Next ==
    \/ ResolveSingle
    \/ ResolveAll
    \/ EnterFetch
    \/ LaunchTask
    \/ SpawnCloser
    \/ MakeResults
    \/ Recv
    \/ RangeEnd
    \/ \E t \in tasks : TaskFetch(t)
    \/ \E t \in tasks : TaskSend(t)
    \/ \E t \in tasks : TaskDone(t)
    \/ CloserWait
    \/ CloserClose
    \/ Render
    \/ Sleep

Spec == Init /\ [][Next]_vars

\* ------------------------------------------- calculateCPUPercentage alone
InitCPU ==
    /\ mode = [single |-> FALSE, spec |-> <<>>]
    /\ vertical = FALSE
    /\ InitLoop
    /\ \E tu, ptu, su, psu \in CounterVals : \E cores \in CoreCounts :
         cpuIn = RawStats(tu, ptu, su, psu, cores, 0, 0, NoEth0)
    /\ cpuOut = NoFloat
    /\ findIn = [listing |-> [err |-> TRUE, list |-> <<>>], spec |-> <<>>]
    /\ findOut = NoFind

ApplyCPU ==
    /\ cpuOut = NoFloat
    /\ cpuOut' = calculateCPUPercentage(cpuIn)
    /\ UNCHANGED <<mainVars, cpuIn, findIn, findOut>>

NextCPU == ApplyCPU

SpecCPU == InitCPU /\ [][NextCPU]_vars

\* ---------------------------------------------------- FindContainer alone
RECURSIVE Prefixes(_)
Prefixes(str) == IF str = <<>> THEN {<<>>} ELSE {str} \cup Prefixes(SubSeq(str, 1, Len(str) - 1))

\* identifiers and their prefixes, names with and without '/', and strangers
FindSpecifiers ==
    UNION {Prefixes(c.ID) : c \in Universe}
      \cup UNION {{c.Names[k] : k \in DOMAIN c.Names} : c \in Universe}
      \cup UNION {{Tail(c.Names[k]) : k \in DOMAIN c.Names} : c \in Universe}
      \cup {<<"z">>, <<"/">>, <<"w", "e", "b">>}

InitFind ==
    /\ mode = [single |-> FALSE, spec |-> <<>>]
    /\ vertical = FALSE
    /\ InitLoop
    /\ cpuIn = RawStats(0, 0, 0, 0, 0, 0, 0, NoEth0)
    /\ cpuOut = NoFloat
    /\ \E listing \in Listings : \E sp \in FindSpecifiers :
         findIn = [listing |-> listing, spec |-> sp]
    /\ findOut = NoFind

ApplyFind ==
    /\ findOut = NoFind
    /\ findOut' = FindContainer(findIn.listing, findIn.spec)
    /\ UNCHANGED <<mainVars, cpuIn, cpuOut, findIn>>

NextFind == ApplyFind

SpecFind == InitFind /\ [][NextFind]_vars

\* ------------------------------------- FetchContainerStatsParallel alone
\* one call on any container list, the empty one included
InitCollect ==
    /\ mode = [single |-> FALSE, spec |-> <<>>]
    /\ vertical = FALSE
    /\ pc = "call"
    /\ cycle = 1
    /\ containers \in Lists
    /\ tasks = {}
    /\ li = 1
    /\ wg = 0
    /\ statsChan = <<>>
    /\ closed = FALSE
    /\ closer = "none"
    /\ results = <<>>
    /\ outcome = <<>>
    /\ order = <<>>
    /\ out = <<>>
    /\ steps = <<"Resolve">>
    /\ prevSteps = <<>>
    /\ InitPure

NextCollect ==
    \/ EnterFetch
    \/ LaunchTask
    \/ SpawnCloser
    \/ MakeResults
    \/ Recv
    \/ RangeEnd
    \/ \E t \in tasks : TaskFetch(t)
    \/ \E t \in tasks : TaskSend(t)
    \/ \E t \in tasks : TaskDone(t)
    \/ CloserWait
    \/ CloserClose

\* some runnable goroutine is always scheduled, and a pending fetch call
\* returns: the call never stops while one of its steps can be taken
FairCollect == WF_vars(NextCollect)

SpecCollect == InitCollect /\ [][NextCollect]_vars /\ FairCollect

\* ========================================================== properties
Has(seq, x) == \E k \in DOMAIN seq : seq[k] = x

Count(seq, x) == Cardinality({k \in DOMAIN seq : seq[k] = x})

IsPrefixOf(p, str) == Len(p) <= Len(str) /\ SubSeq(str, 1, Len(p)) = p

\* the element a successful fetch of container c must leave in its slot
ExpectedStat(c) ==
    [Container |-> c, Stats |-> GetContainerStats("ok", RuntimeStats(c.ID)).stats]

\* FetchContainerStatsParallel has returned to main
Returned == pc \in {"render", "sleep"} \/ (pc = "panicked" /\ Has(steps, "Render"))

FullCycle == <<"Resolve", "Collect", "Render", "Sleep">>

\* C1: the result has one element per input container, and whatever the
\* order in which the fetches complete, a filled slot i holds the i-th input
\* container with the sample fetched for that container; on return every
\* successful fetch is in its own slot.
C1_Ordering ==
    /\ pc \in {"range", "render", "sleep"} =>
         /\ Len(results) = Len(containers)
         /\ \A i \in DOMAIN results :
              results[i] # ZeroStat => results[i] = ExpectedStat(containers[i])
    /\ Returned =>
         \A i \in DOMAIN outcome :
              outcome[i] = "ok" => results[i] = ExpectedStat(containers[i])

\* two fetches succeeded and arrived in the reverse of the input order
C1_Witness ==
    /\ pc = "render"
    /\ Len(containers) >= 2
    /\ order = <<2, 1>>
    /\ results[1] = ExpectedStat(containers[1])
    /\ results[2] = ExpectedStat(containers[2])

\* C2: for every set of failing fetches the collector returns a full-length
\* result without an error: failed indices hold the zero-value ContainerStat,
\* all other indices hold their own container and sample, and every sibling
\* of a failed task has run to completion.
C2_FailureIsolation ==
    /\ Returned =>
         /\ Len(results) = Len(containers)
         /\ \A i \in DOMAIN outcome :
              /\ outcome[i] \in {"ok", "failed"}
              /\ outcome[i] = "failed" => results[i] = ZeroStat
              /\ outcome[i] = "ok" => results[i] = ExpectedStat(containers[i])
    /\ pc = "panicked" => Has(steps, "Render")

\* the first fetch failed, the second succeeded and is in its slot
C2_Witness ==
    /\ pc = "render"
    /\ Len(containers) >= 2
    /\ outcome[1] = "failed" /\ outcome[2] = "ok"
    /\ results[1] = ZeroStat
    /\ results[2] = ExpectedStat(containers[2])

\* C3: when the collector has returned, no launched task is in flight, every
\* launched task has succeeded or failed, nothing is left in the channel, and
\* no successful task's sample is missing from the result.
C3_Barrier ==
    Returned =>
        /\ tasks = {}
        /\ statsChan = <<>>
        /\ closed
        /\ \A i \in DOMAIN outcome :
             /\ outcome[i] # "none"
             /\ outcome[i] = "ok" => results[i] # ZeroStat

\* the collector returned after receiving two samples
C3_Witness ==
    /\ pc = "render"
    /\ Len(order) >= 2
    /\ tasks = {}

RowsOfOk ==
    SelectSeq([i \in DOMAIN results |-> [kind |-> "row", i |-> i]],
              LAMBDA r : outcome[r.i] = "ok")

\* C4: a failed fetch never ends the render loop: the process does not
\* abort, and a rendered cycle shows one row per successfully fetched
\* container.
C4_LoopSurvivesFailedFetch ==
    /\ pc # "panicked"
    /\ pc = "sleep" => Count([k \in DOMAIN out |-> out[k].kind], "row") = Len(RowsOfOk)

\* C5: with equal current and previous system CPU time the percentage is 0.0.
C5_ZeroSystemDelta ==
    (cpuOut # NoFloat /\ cpuIn.SystemUsage = cpuIn.PreSystemUsage) => cpuOut = Float(0)

\* C6: between two consecutive target-set resolutions there is exactly one
\* Sleep step, the last step of the earlier cycle.
C6_SleepEveryCycle ==
    cycle > 1 =>
        /\ Count(prevSteps, "Sleep") = 1
        /\ prevSteps[Len(prevSteps)] = "Sleep"

\* C7: in a cycle whose resolved target set is empty no fetch task is
\* launched, the collector is not entered and nothing is rendered.
C7_SkipOnEmpty ==
    Len(containers) = 0 =>
        /\ pc \notin {"call", "launch", "make", "range", "render"}
        /\ ~Has(steps, "Collect")
        /\ ~Has(steps, "Render")
        /\ out = <<>>
        /\ \A t \in tasks : t.cyc # cycle

\* a cycle with an empty container list went from Resolve to Sleep and ended
C7_Witness ==
    /\ cycle >= 1
    /\ pc = "resolve"
    /\ containers = <<>>
    /\ steps = <<"Resolve", "Sleep">>

\* the specifier designates container c by identifier, prefix or name
Designates(containerSpecifier, c) ==
    \/ containerSpecifier = c.ID
    \/ IsPrefixOf(containerSpecifier, c.ID)
    \/ \E k \in DOMAIN c.Names :
         \/ c.Names[k] = containerSpecifier
         \/ c.Names[k] = <<"/">> \o containerSpecifier

FindApplied == findOut # NoFind /\ ~findIn.listing.err

\* C8 as stated: every container of the list that the specifier designates
\* is the container returned; a specifier designating none is not found.
C8_AnyDesignatedResolves ==
    FindApplied =>
        LET list == findIn.listing.list
        IN  /\ \A k \in DOMAIN list :
                 Designates(findIn.spec, list[k]) =>
                     findOut = [c |-> list[k], err |-> "nil"]
            /\ (\A k \in DOMAIN list : ~Designates(findIn.spec, list[k])) =>
                     findOut = [c |-> ZeroContainer, err |-> "container not found"]

\* C8 amended: the container returned is the first of the list that the
\* specifier designates; a specifier designating none is not found.
C8_FirstDesignatedResolves ==
    FindApplied =>
        LET list == findIn.listing.list
        IN  /\ \A k \in DOMAIN list :
                 (/\ Designates(findIn.spec, list[k])
                  /\ \A j \in 1 .. k - 1 : ~Designates(findIn.spec, list[j])) =>
                     findOut = [c |-> list[k], err |-> "nil"]
            /\ (\A k \in DOMAIN list : ~Designates(findIn.spec, list[k])) =>
                     findOut = [c |-> ZeroContainer, err |-> "container not found"]

\* a proper identifier prefix resolved to the second container of the list
C8_Witness ==
    /\ FindApplied
    /\ Len(findIn.listing.list) >= 2
    /\ findOut = [c |-> findIn.listing.list[2], err |-> "nil"]
    /\ IsPrefixOf(findIn.spec, findOut.c.ID)
    /\ Len(findIn.spec) \in 1 .. IdLen - 1

\* C9: with a non-zero system delta the percentage is
\* cpuDelta / systemDelta * cores * 100, cores being the per-core count or,
\* when that is zero, the fallback 7; counters (20,10,200,100) on 4 cores
\* give 40.
C9_Percentage ==
    (cpuOut # NoFloat /\ cpuIn.SystemUsage # cpuIn.PreSystemUsage) =>
        LET cores == IF cpuIn.PercpuLen = 0 THEN 7 ELSE cpuIn.PercpuLen
        IN  /\ cpuOut = Rat((cpuIn.TotalUsage - cpuIn.PreTotalUsage) * cores * 100,
                            cpuIn.SystemUsage - cpuIn.PreSystemUsage)
            /\ cpuIn = RawStats(20, 10, 200, 100, 4, 0, 0, NoEth0) => cpuOut = Float(40)

\* counters (20,10,200,100) without a per-core breakdown give 70
C9_Witness ==
    /\ cpuIn = RawStats(20, 10, 200, 100, 0, 0, 0, NoEth0)
    /\ cpuOut = Float(70)

\* C10: a cycle with a non-empty target set steps through Resolve, Collect,
\* Render, Sleep in that order; all fetch tasks in flight belong to the
\* current cycle; Render starts only after the collector has returned.
C10_CycleOrder ==
    /\ \A t \in tasks : t.cyc = cycle
    /\ Len(containers) > 0 => IsPrefixOf(steps, FullCycle)
    /\ Has(prevSteps, "Collect") => prevSteps = FullCycle
    /\ Has(steps, "Render") => tasks = {} /\ closer = "none"
    /\ pc \in {"call", "launch", "make", "range"} => ~Has(steps, "Render")

\* the second cycle launches its tasks after a complete first cycle
C10_Witness ==
    /\ cycle = 2
    /\ prevSteps = FullCycle
    /\ pc = "launch"
    /\ tasks # {}

\* number of writes main has made to results[i] in this call
Writes(i) == Count(order, i)

C11_State ==
    /\ \A k \in DOMAIN statsChan :
         /\ statsChan[k].Index \in DOMAIN containers
         /\ statsChan[k].Stat.Container = containers[statsChan[k].Index]
         /\ Writes(statsChan[k].Index) = 0
         /\ \A j \in DOMAIN statsChan : j # k => statsChan[j].Index # statsChan[k].Index
    /\ pc \in {"range", "render"} =>
         \A i \in DOMAIN results :
              /\ Writes(i) <= 1
              /\ outcome[i] = "failed" => Writes(i) = 0 /\ results[i] = ZeroStat
              /\ Writes(i) = 1 => outcome[i] = "ok" /\ results[i].Container = containers[i]
              /\ Writes(i) = 0 => results[i] = ZeroStat
    /\ pc = "render" =>
         \A i \in DOMAIN results : outcome[i] = "ok" => Writes(i) = 1

\* results changes only in a step of main: its allocation, or one store of
\* the range loop, which changes one slot; no goroutine step changes it
C11_Step ==
    results' # results =>
        \/ pc = "call" /\ pc' = "launch"
        \/ pc = "make" /\ pc' = "range"
        \/ /\ pc = "range" /\ pc' = "range"
           /\ tasks' = tasks
           /\ Len(order') = Len(order) + 1
           /\ \A i \in DOMAIN results :
                i # order'[Len(order')] => results'[i] = results[i]

\* C11: within one call every write to the result array is made by the range
\* loop of the calling goroutine, one slot at a time, at the input index of
\* the task whose sample it is; an index is written at most once, exactly
\* once for a successful task and never for a failed one.
C11_IndexPartitionedWrites == []C11_State /\ [][C11_Step]_vars

\* the call returned with slot 1 written once and slot 2 never written
C11_Witness ==
    /\ pc = "render"
    /\ Len(containers) >= 2
    /\ order = <<1>>
    /\ outcome[1] = "ok" /\ outcome[2] = "failed"
    /\ results[2] = ZeroStat

C12_State ==
    /\ pc # "panicked"
    /\ Len(statsChan) <= Len(containers)
    /\ \A t \in tasks : t.st = "sending" =>
         /\ Len(statsChan) < Len(containers)
         /\ ~closed
    /\ closed => tasks = {} /\ wg = 0 /\ closer = "none"
    /\ pc = "render" => closed /\ Len(results) = Len(containers)
    /\ Len(containers) = 0 =>
         /\ tasks = {}
         /\ statsChan = <<>>
         /\ pc = "render" => results = <<>>

\* the channel, once closed, stays closed, and the step that closes it
\* finds it open
C12_Step ==
    /\ closed => closed'
    /\ (closer = "closing" /\ closer' = "none") => ~closed /\ closed'

\* C12: for every list length, the empty list included, a call of the
\* collector eventually returns when every fetch returns and scheduling is
\* fair; a sending task always finds room in the channel, the channel is
\* closed once, after every task has finished, and nothing is sent after
\* that; on an empty list no task exists and the result is empty.
C12_Termination ==
    /\ []C12_State
    /\ [][C12_Step]_vars
    /\ (pc = "call") ~> (pc = "render")

\* a call on two or more containers returned with every sample received,
\* the wait group at zero and the channel closed
C12_Witness ==
    /\ pc = "render"
    /\ closed
    /\ Len(containers) >= 2
    /\ Len(order) = Len(containers)
    /\ wg = 0
====
